---- MODULE Spec2Model ----
(***************************************************************************)
(* Model of tools/generate_tags.py: the CSV extractor (parse_csv), the     *)
(* formatter (escape_js_string, format_tags_set, format_aliases), the      *)
(* curated subsets (generate_background_tags, generate_clothing_tags) and  *)
(* main(): derivation, dry-run branch, marker scan, validation, splice and *)
(* in-place write of index.js.                                             *)
(*                                                                         *)
(* A Python str is a sequence of code points; a line of index.js is a      *)
(* record [fmt, num, args]: the literal text of the line with its          *)
(* interpolated threshold (num) and its interpolated, escaped strings      *)
(* (args).                                                                 *)
(***************************************************************************)
EXTENDS Integers, Sequences, FiniteSets, TLC

(***************************************************************************)
(* Bounds of the model.                                                    *)
(***************************************************************************)
\* chunks an index.js under test is concatenated from
MaxChunks == 4
\* rows of a generated CSV
MaxRows == 2
\* tags of a generated tag list
MaxTags == 17
\* length of a string handed to escape_js_string
MaxStrLen == 4
\* invocations of the tool on the same index.js
MaxRuns == 2

(***************************************************************************)
(* Characters and strings.                                                 *)
(***************************************************************************)
BACKSLASH == 92
APOSTROPHE == 39
COMMA == 44
SPACE == 32
PLUS == 43
MINUS == 45
DIGIT0 == 48
DIGIT9 == 57

RECURSIVE StrLess(_, _)
\* Python's str ordering used by sorted(): lexicographic by code point
StrLess(a, b) ==
    IF b = <<>> THEN FALSE
    ELSE IF a = <<>> THEN TRUE
    ELSE IF a[1] # b[1] THEN a[1] < b[1]
    ELSE StrLess(Tail(a), Tail(b))

StrMin(S) == CHOOSE x \in S : \A y \in S : (y = x) \/ StrLess(x, y)

RECURSIVE SortedSeq(_)
\* sorted(S) of a set (or of the keys of a dict) of strings
SortedSeq(S) ==
    IF S = {} THEN <<>>
    ELSE LET m == StrMin(S) IN <<m>> \o SortedSeq(S \ {m})

Range(q) == {q[i] : i \in 1..Len(q)}

\* e, with v computed first: the statements of a loop body run in order, so an
\* iteration starts from the finished result of the one before it
After(v, e) == IF v = v THEN e ELSE e

RECURSIVE Concat(_)
Concat(qq) == IF qq = <<>> THEN <<>> ELSE Head(qq) \o Concat(Tail(qq))

RECURSIVE Replace(_, _, _)
\* str.replace(c, r) for a one-character pattern c
Replace(s, c, r) ==
    IF s = <<>> THEN <<>>
    ELSE (IF s[1] = c THEN r ELSE <<s[1]>>) \o Replace(Tail(s), c, r)

\* the two replace calls the other way round
escape_js_string_swapped(s) ==
    Replace(Replace(s, APOSTROPHE, <<BACKSLASH, APOSTROPHE>>),
            BACKSLASH, <<BACKSLASH, BACKSLASH>>)

escape_js_string(s) ==
    Replace(Replace(s, BACKSLASH, <<BACKSLASH, BACKSLASH>>),
            APOSTROPHE, <<BACKSLASH, APOSTROPHE>>)

RECURSIVE LStrip(_)
LStrip(s) == IF s # <<>> /\ s[1] = SPACE THEN LStrip(Tail(s)) ELSE s

RECURSIVE RStrip(_)
RStrip(s) ==
    IF s # <<>> /\ s[Len(s)] = SPACE THEN RStrip(SubSeq(s, 1, Len(s) - 1)) ELSE s

\* str.strip() over the whitespace of the model's alphabet (the space)
Strip(s) == RStrip(LStrip(s))

IsDigit(c) == DIGIT0 <= c /\ c <= DIGIT9

RECURSIVE DigitsValue(_)
DigitsValue(d) ==
    IF d = <<>> THEN 0
    ELSE 10 * DigitsValue(SubSeq(d, 1, Len(d) - 1)) + (d[Len(d)] - DIGIT0)

\* int(s): surrounding whitespace, an optional sign, one or more digits;
\* anything else raises ValueError (ok = FALSE)
PyInt(s) ==
    LET t == Strip(s)
        signed == t # <<>> /\ t[1] \in {PLUS, MINUS}
        d == IF signed THEN Tail(t) ELSE t
    IN  IF d = <<>> \/ \E i \in 1..Len(d) : ~IsDigit(d[i])
        THEN [ok |-> FALSE, val |-> 0]
        ELSE [ok |-> TRUE,
              val |-> IF signed /\ t[1] = MINUS THEN 0 - DigitsValue(d)
                      ELSE DigitsValue(d)]

RECURSIVE Split(_, _)
\* str.split(c)
Split(s, c) ==
    IF \A i \in 1..Len(s) : s[i] # c THEN <<s>>
    ELSE LET k == CHOOSE i \in 1..Len(s) :
                      s[i] = c /\ \A j \in 1..(i - 1) : s[j] # c
         IN  <<SubSeq(s, 1, k - 1)>> \o Split(SubSeq(s, k + 1, Len(s)), c)

RECURSIVE StripNonEmpty(_)
\* [a.strip() for a in parts if a.strip()]
StripNonEmpty(parts) ==
    IF parts = <<>> THEN <<>>
    ELSE (IF Strip(Head(parts)) # <<>> THEN <<Strip(Head(parts))>> ELSE <<>>)
         \o StripNonEmpty(Tail(parts))

(***************************************************************************)
(* parse_csv.  A row is the list of fields csv.reader yields; the dict     *)
(* `tags` is a sequence of entries in insertion order (a key assigned      *)
(* again keeps its place).                                                 *)
(***************************************************************************)
DictKeys(d) == {d[i].name : i \in 1..Len(d)}

DictGet(d, k) == d[CHOOSE i \in 1..Len(d) : d[i].name = k]

DictSet(d, e) ==
    IF e.name \in DictKeys(d)
    THEN [i \in 1..Len(d) |-> IF d[i].name = e.name THEN e ELSE d[i]]
    ELSE Append(d, e)

RowAliases(row) ==
    IF Len(row) >= 4 /\ Strip(row[4]) # <<>>
    THEN StripNonEmpty(Split(row[4], COMMA))
    ELSE <<>>

\* the filter without the type test
RowPasses_anytype(ty, cnt, threshold) == ~(cnt < threshold)

\* line 70: if tag_type != 0 or tag_count < threshold: continue
RowPasses(ty, cnt, threshold) == ~(ty # 0 \/ cnt < threshold)

\* one iteration of the loop over the rows
ParseRow(tags, row, threshold) ==
    IF Len(row) < 3 THEN tags
    ELSE LET ty == PyInt(row[2])
             cnt == PyInt(row[3])
         IN  IF ~ty.ok \/ ~cnt.ok THEN tags
             ELSE IF ~RowPasses(ty.val, cnt.val, threshold) THEN tags
             ELSE DictSet(tags, [name |-> row[1], count |-> cnt.val,
                                 aliases |-> RowAliases(row)])

RECURSIVE ParseRows(_, _, _)
\* the loop over the rows, in order, from the dict tags (halved rather than
\* row by row: the result is that of the loop)
ParseRows(tags, rows, threshold) ==
    IF rows = <<>> THEN tags
    ELSE IF Len(rows) = 1 THEN ParseRow(tags, rows[1], threshold)
    ELSE LET mid == Len(rows) \div 2
             left == ParseRows(tags, SubSeq(rows, 1, mid), threshold)
         IN  After(left, ParseRows(left, SubSeq(rows, mid + 1, Len(rows)), threshold))

parse_csv(rows, threshold) == ParseRows(<<>>, rows, threshold)

(***************************************************************************)
(* Tag names of the model and the curated candidate lists (excerpts of the *)
(* hardcoded lists, in their order, with entries that are listed twice).   *)
(***************************************************************************)
T_indoors == <<105, 110, 100, 111, 111, 114, 115>>
T_outdoors == <<111, 117, 116, 100, 111, 111, 114, 115>>
T_bedroom == <<98, 101, 100, 114, 111, 111, 109>>
T_bathroom == <<98, 97, 116, 104, 114, 111, 111, 109>>
T_kitchen == <<107, 105, 116, 99, 104, 101, 110>>
T_living_room == <<108, 105, 118, 105, 110, 103, 95, 114, 111, 111, 109>>
T_classroom == <<99, 108, 97, 115, 115, 114, 111, 111, 109>>
T_hallway == <<104, 97, 108, 108, 119, 97, 121>>
T_rooftop == <<114, 111, 111, 102, 116, 111, 112>>
T_balcony == <<98, 97, 108, 99, 111, 110, 121>>
T_office == <<111, 102, 102, 105, 99, 101>>
T_library == <<108, 105, 98, 114, 97, 114, 121>>
T_hospital == <<104, 111, 115, 112, 105, 116, 97, 108>>
T_fountain == <<102, 111, 117, 110, 116, 97, 105, 110>>
T_shirt == <<115, 104, 105, 114, 116>>
T_dress == <<100, 114, 101, 115, 115>>
T_skirt == <<115, 107, 105, 114, 116>>
T_bustier == <<98, 117, 115, 116, 105, 101, 114>>
T_corset == <<99, 111, 114, 115, 101, 116>>
T_open_shirt == <<111, 112, 101, 110, 95, 115, 104, 105, 114, 116>>
\* tags outside both candidate lists: 1girl, it's, a\b
T_1girl == <<49, 103, 105, 114, 108>>
T_its == <<105, 116, 39, 115>>
T_a_bs_b == <<97, 92, 98>>

BackgroundCandidates ==
    <<T_indoors, T_outdoors, T_bedroom, T_bathroom, T_kitchen, T_living_room,
      T_classroom, T_hallway, T_rooftop, T_balcony, T_office, T_library,
      T_hospital, T_fountain, T_fountain>>

ClothingCandidates ==
    <<T_shirt, T_dress, T_skirt, T_bustier, T_corset, T_open_shirt,
      T_corset, T_bustier>>

InSet(q, S) == SelectSeq(q, LAMBDA t : t \in S)

\* the candidate list returned whole
generate_background_tags_unfiltered(valid_tags) == BackgroundCandidates

\* return [t for t in candidates if t in valid_tags]
generate_background_tags(valid_tags) == InSet(BackgroundCandidates, valid_tags)

generate_clothing_tags(valid_tags) == InSet(ClothingCandidates, valid_tags)

(***************************************************************************)
(* Formatter.                                                              *)
(***************************************************************************)
\* entries per line of VALID_BOORU_TAGS
TagsPerLine == 8
\* entries per line of BACKGROUND_TAGS and CLOTHING_TAGS
PersistPerLine == 6

Min(a, b) == IF a < b THEN a ELSE b

Line(fmt, num, args) == [fmt |-> fmt, num |-> num, args |-> args]

Text(fmt) == Line(fmt, 0, <<>>)

EscapeAll(q) == [i \in 1..Len(q) |-> escape_js_string(q[i])]

\* the entries of one line: ", ".join(f"'{escape_js_string(t)}'" for t in chunk)
Entries(chunk) == EscapeAll(chunk)

RECURSIVE ChunkLines(_, _)
\* for i in range(0, len(q), n): chunk = q[i:i+n]
ChunkLines(q, n) ==
    IF q = <<>> THEN <<>>
    ELSE <<Entries(SubSeq(q, 1, Min(n, Len(q))))>>
         \o ChunkLines(SubSeq(q, Min(n, Len(q)) + 1, Len(q)), n)

\* each element is the entry list of f"    {entries}"
format_tags_set(tag_names) == ChunkLines(SortedSeq(tag_names), TagsPerLine)

AliasKeys(d) == {p.alias : p \in d}

AliasGet(d, a) == (CHOOSE p \in d : p.alias = a).canonical

\* aliases_dict[alias] = tag_name
AliasSet(d, a, n) == {p \in d : p.alias # a} \cup {[alias |-> a, canonical |-> n]}

\* each element is <<alias, canonical>> of f"    '{alias}': '{canonical}'"
format_aliases(aliases_dict) ==
    LET keys == SortedSeq(AliasKeys(aliases_dict))
    IN  [i \in 1..Len(keys) |->
            <<escape_js_string(keys[i]), escape_js_string(AliasGet(aliases_dict, keys[i]))>>]

RECURSIVE AddAliases(_, _, _)
\* for alias in info['aliases']: aliases_dict[alias] = tag_name
AddAliases(d, name, aliases) ==
    IF aliases = <<>> THEN d
    ELSE LET next == AliasSet(d, Head(aliases), name)
         IN  After(next, AddAliases(next, name, Tail(aliases)))

RECURSIVE BuildAliases(_, _)
\* for tag_name, info in tags.items(): ...
BuildAliases(d, tags) ==
    IF tags = <<>> THEN d
    ELSE IF Len(tags) = 1 THEN AddAliases(d, tags[1].name, tags[1].aliases)
    ELSE LET mid == Len(tags) \div 2
             left == BuildAliases(d, SubSeq(tags, 1, mid))
         IN  After(left, BuildAliases(left, SubSeq(tags, mid + 1, Len(tags))))

(***************************************************************************)
(* Lines of index.js: the literal texts the generator writes, and the      *)
(* texts of the files under test.                                          *)
(***************************************************************************)
VALID_MARK == "const VALID_BOORU_TAGS = new Set(["
BG_MARK == "const BACKGROUND_TAGS = new Set(["
CLOTH_MARK == "const CLOTHING_TAGS = new Set(["
ALIASES_MARK == "const TAG_ALIASES = {"
SET_CLOSE == "]);"
OBJ_CLOSE == "};"

VALID_HEAD == "// Valid booru tags (extracted from danbooru dataset - category 0 tags with {num}+ posts)\n"
VALID_OPEN == "const VALID_BOORU_TAGS = new Set([\n"
BG_HEAD == "// Scene Persistence: Background/setting tags (curated subset of VALID_BOORU_TAGS)\n"
BG_OPEN == "const BACKGROUND_TAGS = new Set([\n"
CLOTH_HEAD == "// Scene Persistence: Clothing tags (curated subset of VALID_BOORU_TAGS)\n"
CLOTH_OPEN == "const CLOTHING_TAGS = new Set([\n"
ALIASES_HEAD == "// Alias corrections (extracted from danbooru - maps common variations to canonical booru tags)\n"
ALIASES_OPEN == "const TAG_ALIASES = {\n"
SET_CLOSE_LINE == "]);\n"
OBJ_CLOSE_LINE == "};\n"
BLANK_LINE == "\n"
ENTRIES_COMMA == "    {entries},\n"
ENTRIES_LAST == "    {entries}\n"
ALIAS_COMMA == "    '{alias}': '{canonical}',\n"
ALIAS_LAST == "    '{alias}': '{canonical}'\n"

\* texts that occur only in files under test
BG_OPEN_EXPORT == "export const BACKGROUND_TAGS = new Set([ // scenes\n"
SET_CLOSE_INDENTED == "  ]);  \n"
OLD_ENTRY == "    'old_tag'\n"
OLD_ALIAS == "    'old_alias': 'old_tag'\n"
OLD_LEAD_IN == "// Valid booru tags (old)\n"
CODE_X == "import { x } from './x.js';\n"

\* `marker in line`: the markers the text of a line contains (the strings
\* interpolated into a line are tag names and aliases of the model, none of
\* which holds a marker)
MarkersIn(line) ==
    CASE line.fmt = VALID_OPEN -> {VALID_MARK}
      [] line.fmt \in {BG_OPEN, BG_OPEN_EXPORT} -> {BG_MARK}
      [] line.fmt = CLOTH_OPEN -> {CLOTH_MARK}
      [] line.fmt = ALIASES_OPEN -> {ALIASES_MARK}
      [] OTHER -> {}

\* line.strip() for the texts that strip to a closing delimiter
Stripped(line) ==
    CASE line.fmt \in {SET_CLOSE_LINE, SET_CLOSE_INDENTED} -> SET_CLOSE
      [] line.fmt = OBJ_CLOSE_LINE -> OBJ_CLOSE
      [] OTHER -> line.fmt

(***************************************************************************)
(* main(): the marker scan.  Indices are 0-based as in the code.           *)
(***************************************************************************)
None == -1

NoMarks ==
    [valid_tags_start |-> None, valid_tags_end |-> None,
     bg_tags_start |-> None, bg_tags_end |-> None,
     cloth_tags_start |-> None, cloth_tags_end |-> None,
     aliases_start |-> None, aliases_end |-> None]

\* the closing delimiter tested by three separate `if`s rather than in the
\* chain: one "]);" line ends every Set region that is open
ScanLine_unchained(m, i, line) ==
    IF VALID_MARK \in MarkersIn(line) THEN [m EXCEPT !.valid_tags_start = i]
    ELSE IF BG_MARK \in MarkersIn(line) THEN [m EXCEPT !.bg_tags_start = i]
    ELSE IF CLOTH_MARK \in MarkersIn(line) THEN [m EXCEPT !.cloth_tags_start = i]
    ELSE IF ALIASES_MARK \in MarkersIn(line) THEN [m EXCEPT !.aliases_start = i]
    ELSE IF Stripped(line) = SET_CLOSE
    THEN [m EXCEPT
            !.valid_tags_end = IF m.valid_tags_start # None /\ @ = None THEN i ELSE @,
            !.bg_tags_end = IF m.bg_tags_start # None /\ @ = None THEN i ELSE @,
            !.cloth_tags_end = IF m.cloth_tags_start # None /\ @ = None THEN i ELSE @]
    ELSE IF m.aliases_start # None /\ m.aliases_end = None /\ Stripped(line) = OBJ_CLOSE
    THEN [m EXCEPT !.aliases_end = i]
    ELSE m

\* the body of `for i, line in enumerate(lines)`: one if/elif chain
ScanLine(m, i, line) ==
    IF VALID_MARK \in MarkersIn(line)
    THEN [m EXCEPT !.valid_tags_start = i]
    ELSE IF m.valid_tags_start # None /\ m.valid_tags_end = None /\ Stripped(line) = SET_CLOSE
    THEN [m EXCEPT !.valid_tags_end = i]
    ELSE IF BG_MARK \in MarkersIn(line)
    THEN [m EXCEPT !.bg_tags_start = i]
    ELSE IF m.bg_tags_start # None /\ m.bg_tags_end = None /\ Stripped(line) = SET_CLOSE
    THEN [m EXCEPT !.bg_tags_end = i]
    ELSE IF CLOTH_MARK \in MarkersIn(line)
    THEN [m EXCEPT !.cloth_tags_start = i]
    ELSE IF m.cloth_tags_start # None /\ m.cloth_tags_end = None /\ Stripped(line) = SET_CLOSE
    THEN [m EXCEPT !.cloth_tags_end = i]
    ELSE IF ALIASES_MARK \in MarkersIn(line)
    THEN [m EXCEPT !.aliases_start = i]
    ELSE IF m.aliases_start # None /\ m.aliases_end = None /\ Stripped(line) = OBJ_CLOSE
    THEN [m EXCEPT !.aliases_end = i]
    ELSE m

RECURSIVE ScanRange(_, _, _, _)
\* the loop over the lines of index lo..hi-1, in order, from the indices m
\* (halved rather than line by line: the result is that of the loop)
ScanRange(m, lo, hi, lines) ==
    IF lo >= hi THEN m
    ELSE IF hi = lo + 1 THEN ScanLine(m, lo, lines[lo + 1])
    ELSE LET mid == (lo + hi) \div 2
             left == ScanRange(m, lo, mid, lines)
         IN  After(left, ScanRange(left, mid, hi, lines))

ScanMarkers(lines) == ScanRange(NoMarks, 0, Len(lines), lines)

\* the validation without the two alias indices
Unresolved_noaliases(m) ==
    None \in {m.valid_tags_start, m.valid_tags_end, m.bg_tags_start, m.bg_tags_end,
              m.cloth_tags_start, m.cloth_tags_end}

\* the validation of the four start indices alone
Unresolved_startsonly(m) ==
    None \in {m.valid_tags_start, m.bg_tags_start, m.cloth_tags_start, m.aliases_start}

\* line 430: if None in [valid_tags_start, ..., aliases_end]
Unresolved(m) ==
    None \in {m.valid_tags_start, m.valid_tags_end, m.bg_tags_start, m.bg_tags_end,
              m.cloth_tags_start, m.cloth_tags_end, m.aliases_start, m.aliases_end}

(***************************************************************************)
(* main(): the splice.                                                     *)
(***************************************************************************)
Max(a, b) == IF a > b THEN a ELSE b

\* lines[:k], k negative counting from the end as Python slices do
SliceTo(lines, k) ==
    SubSeq(lines, 1, Min(IF k < 0 THEN Max(Len(lines) + k, 0) ELSE k, Len(lines)))

\* lines[k:] for k >= 0
SliceFrom(lines, k) == SubSeq(lines, k + 1, Len(lines))

\* enumerate(ls): a comma after every line but the last
CommaButLast(ls, withComma, last) ==
    [i \in 1..Len(ls) |-> Line(IF i - 1 < Len(ls) - 1 THEN withComma ELSE last, 0, ls[i])]

\* a comma after every line, the last too
PersistLines_allcomma(q) ==
    LET ls == ChunkLines(q, PersistPerLine)
    IN  [k \in 1..Len(ls) |-> Line(ENTRIES_COMMA, 0, ls[k])]

\* for i in range(0, len(q), 6): comma when i + 6 < len(q)
PersistLines(q) ==
    LET ls == ChunkLines(q, PersistPerLine)
    IN  [k \in 1..Len(ls) |->
            Line(IF (k - 1) * PersistPerLine + PersistPerLine < Len(q)
                 THEN ENTRIES_COMMA ELSE ENTRIES_LAST, 0, ls[k])]

ValidBlock(threshold, tags_lines) ==
    <<Line(VALID_HEAD, threshold, <<>>), Text(VALID_OPEN)>>
    \o CommaButLast(tags_lines, ENTRIES_COMMA, ENTRIES_LAST)
    \o <<Text(SET_CLOSE_LINE), Text(BLANK_LINE)>>

BackgroundBlock(background_tags) ==
    <<Text(BG_HEAD), Text(BG_OPEN)>> \o PersistLines(background_tags)
    \o <<Text(SET_CLOSE_LINE), Text(BLANK_LINE)>>

ClothingBlock(clothing_tags) ==
    <<Text(CLOTH_HEAD), Text(CLOTH_OPEN)>> \o PersistLines(clothing_tags)
    \o <<Text(SET_CLOSE_LINE), Text(BLANK_LINE)>>

AliasesBlock(aliases_dict) ==
    <<Text(ALIASES_HEAD), Text(ALIASES_OPEN)>>
    \o CommaButLast(format_aliases(aliases_dict), ALIAS_COMMA, ALIAS_LAST)
    \o <<Text(OBJ_CLOSE_LINE)>>

\* the four blocks in the order main() appends them
Generated(threshold, tags_lines, background_tags, clothing_tags, aliases_dict) ==
    ValidBlock(threshold, tags_lines) \o BackgroundBlock(background_tags)
    \o ClothingBlock(clothing_tags) \o AliasesBlock(aliases_dict)

\* lines 444-446: comment_line = valid_tags_start - 1; lines[:comment_line]
SpliceHead(lines, m) == SliceTo(lines, m.valid_tags_start - 1)

\* line 497: lines[aliases_end + 1:]
SpliceTail(lines, m) == SliceFrom(lines, m.aliases_end + 1)

(***************************************************************************)
(* main(): what it prints to sys.stderr.  A printed line is the text of    *)
(* the print statement and the values interpolated into it, in order (the  *)
(* path args.csv and INDEX_JS_PATH are left in the text).                  *)
(***************************************************************************)
MSG_PARSING == "Parsing {args.csv} (threshold: {args.threshold})..."
MSG_FOUND == "Found {len(tags)} type-0 tags with {args.threshold}+ posts"
MSG_GENERATED == "Generated {len(aliases_dict)} alias mappings"
MSG_BACKGROUND == "Background tags: {len(background_tags)} (validated against VALID_BOORU_TAGS)"
MSG_CLOTHING == "Clothing tags: {len(clothing_tags)} (validated against VALID_BOORU_TAGS)"
MSG_DRY_RUN == "\n[DRY RUN] No changes written."
MSG_ERROR == "ERROR: Could not find all section markers in index.js"
MSG_LOCATIONS == "\nSection locations in index.js:"
MSG_LOC_VALID == "  VALID_BOORU_TAGS: lines {valid_tags_start+1}-{valid_tags_end+1}"
MSG_LOC_BG == "  BACKGROUND_TAGS:  lines {bg_tags_start+1}-{bg_tags_end+1}"
MSG_LOC_CLOTH == "  CLOTHING_TAGS:    lines {cloth_tags_start+1}-{cloth_tags_end+1}"
MSG_LOC_ALIASES == "  TAG_ALIASES:      lines {aliases_start+1}-{aliases_end+1}"
MSG_DONE == "\nDone! Written {len(new_lines)} lines to {INDEX_JS_PATH}"
MSG_N_VALID == "  VALID_BOORU_TAGS: {len(tag_names)} entries"
MSG_N_ALIASES == "  TAG_ALIASES:      {len(aliases_dict)} entries"
MSG_N_BG == "  BACKGROUND_TAGS:  {len(background_tags)} entries"
MSG_N_CLOTH == "  CLOTHING_TAGS:    {len(clothing_tags)} entries"

Printed(text, values) == [text |-> text, values |-> values]

\* the four regions, by the names of their declarations
RegionNames == {"VALID_BOORU_TAGS", "BACKGROUND_TAGS", "CLOTHING_TAGS", "TAG_ALIASES"}

\* the start and the end index the scan kept for a region
StartOf(m, r) ==
    CASE r = "VALID_BOORU_TAGS" -> m.valid_tags_start
      [] r = "BACKGROUND_TAGS" -> m.bg_tags_start
      [] r = "CLOTHING_TAGS" -> m.cloth_tags_start
      [] r = "TAG_ALIASES" -> m.aliases_start

EndOf(m, r) ==
    CASE r = "VALID_BOORU_TAGS" -> m.valid_tags_end
      [] r = "BACKGROUND_TAGS" -> m.bg_tags_end
      [] r = "CLOTHING_TAGS" -> m.cloth_tags_end
      [] r = "TAG_ALIASES" -> m.aliases_end

UnresolvedRegions(m) == {r \in RegionNames : StartOf(m, r) = None \/ EndOf(m, r) = None}

\* the error line followed by the names of the regions that did not resolve
ErrorLines_naming(m) == <<Printed(MSG_ERROR, <<UnresolvedRegions(m)>>)>>

\* line 432: print("ERROR: Could not find all section markers in index.js")
ErrorLines(m) == <<Printed(MSG_ERROR, <<>>)>>

\* lines 435-439
LocationLines(m) ==
    <<Printed(MSG_LOCATIONS, <<>>),
      Printed(MSG_LOC_VALID, <<m.valid_tags_start + 1, m.valid_tags_end + 1>>),
      Printed(MSG_LOC_BG, <<m.bg_tags_start + 1, m.bg_tags_end + 1>>),
      Printed(MSG_LOC_CLOTH, <<m.cloth_tags_start + 1, m.cloth_tags_end + 1>>),
      Printed(MSG_LOC_ALIASES, <<m.aliases_start + 1, m.aliases_end + 1>>)>>

\* lines 503-507
DoneLines(new_lines, tag_names, aliases_dict, background_tags, clothing_tags) ==
    <<Printed(MSG_DONE, <<Len(new_lines)>>),
      Printed(MSG_N_VALID, <<Cardinality(tag_names)>>),
      Printed(MSG_N_ALIASES, <<Cardinality(aliases_dict)>>),
      Printed(MSG_N_BG, <<Len(background_tags)>>),
      Printed(MSG_N_CLOTH, <<Len(clothing_tags)>>)>>

(***************************************************************************)
(* State of one invocation of main() and of the file it patches.           *)
(***************************************************************************)
VARIABLES
    pc,               \* where main() stands
    csv,              \* the rows of args.csv
    threshold,        \* args.threshold
    dry_run,          \* args.dry_run
    tags,             \* result of parse_csv
    tag_names,
    tags_lines,
    aliases_dict,
    background_tags,
    clothing_tags,
    index_js,         \* the content of INDEX_JS_PATH on disk
    lines,            \* f.readlines()
    marks,            \* the eight indices of the scan
    exit_code,        \* None while running
    opened,           \* modes INDEX_JS_PATH was opened in by this invocation
    stderr,           \* the lines this invocation printed to sys.stderr
    run,              \* number of the invocation
    before_js,        \* index.js as the invocation found it
    first_out         \* index.js as the first invocation left it

vars == <<pc, csv, threshold, dry_run, tags, tag_names, tags_lines, aliases_dict,
          background_tags, clothing_tags, index_js, lines, marks, exit_code,
          opened, stderr, run, before_js, first_out>>

inputs == <<csv, threshold, dry_run>>

derived == <<tag_names, tags_lines, aliases_dict, background_tags, clothing_tags>>

history == <<run, before_js, first_out>>

\* lines 371-373: tags = parse_csv(args.csv, args.threshold), and its prints
ParseCsv ==
    /\ pc = "start"
    /\ tags' = parse_csv(csv, threshold)
    /\ stderr' = stderr \o <<Printed(MSG_PARSING, <<threshold>>),
                              Printed(MSG_FOUND,
                                      <<Len(parse_csv(csv, threshold)), threshold>>)>>
    /\ pc' = "parsed"
    /\ UNCHANGED <<inputs, derived, index_js, lines, marks, exit_code, opened, history>>

\* lines 376-392: the tag set, the alias map and the two curated subsets
Derive ==
    /\ pc = "parsed"
    /\ tag_names' = DictKeys(tags)
    /\ tags_lines' = format_tags_set(DictKeys(tags))
    /\ aliases_dict' = BuildAliases({}, tags)
    /\ background_tags' = generate_background_tags(DictKeys(tags))
    /\ clothing_tags' = generate_clothing_tags(DictKeys(tags))
    /\ stderr' = stderr \o
           <<Printed(MSG_GENERATED, <<Cardinality(BuildAliases({}, tags))>>),
             Printed(MSG_BACKGROUND, <<Len(generate_background_tags(DictKeys(tags)))>>),
             Printed(MSG_CLOTHING, <<Len(generate_clothing_tags(DictKeys(tags)))>>)>>
    /\ pc' = "derived"
    /\ UNCHANGED <<inputs, tags, index_js, lines, marks, exit_code, opened, history>>

\* lines 394-396: if args.dry_run: print; return
DryRunReturn ==
    /\ pc = "derived"
    /\ dry_run
    /\ stderr' = Append(stderr, Printed(MSG_DRY_RUN, <<>>))
    /\ pc' = "done"
    /\ exit_code' = 0
    /\ UNCHANGED <<inputs, tags, derived, index_js, lines, marks, opened, history>>

\* the read and the scan entered without the dry-run test
ScanTarget_always ==
    /\ pc = "derived"
    /\ lines' = index_js
    /\ marks' = ScanMarkers(index_js)
    /\ opened' = opened \cup {"r"}
    /\ pc' = "scanned"
    /\ UNCHANGED <<inputs, tags, derived, index_js, exit_code, stderr, history>>

\* lines 398-428: read index.js, scan it for the section markers
ScanTarget ==
    /\ pc = "derived"
    /\ ~dry_run
    /\ lines' = index_js
    /\ marks' = ScanMarkers(index_js)
    /\ opened' = opened \cup {"r"}
    /\ pc' = "scanned"
    /\ UNCHANGED <<inputs, tags, derived, index_js, exit_code, stderr, history>>

\* lines 430-433: a marker is missing: print the error, sys.exit(1)
MissingExit ==
    /\ pc = "scanned"
    /\ Unresolved(marks)
    /\ stderr' = stderr \o ErrorLines(marks)
    /\ pc' = "error"
    /\ exit_code' = 1
    /\ UNCHANGED <<inputs, tags, derived, index_js, lines, marks, opened, history>>

\* lines 435-507: build new_lines, write them over index.js, print the counts
SpliceWrite ==
    /\ pc = "scanned"
    /\ ~Unresolved(marks)
    /\ index_js' = SpliceHead(lines, marks)
                   \o Generated(threshold, tags_lines, background_tags,
                                clothing_tags, aliases_dict)
                   \o SpliceTail(lines, marks)
    /\ stderr' = stderr \o LocationLines(marks)
                  \o DoneLines(index_js', tag_names, aliases_dict,
                               background_tags, clothing_tags)
    /\ opened' = opened \cup {"w"}
    /\ pc' = "done"
    /\ exit_code' = 0
    /\ UNCHANGED <<inputs, tags, derived, lines, marks, history>>

\* the operator runs the tool again with the same arguments
RunAgain ==
    /\ pc = "done"
    /\ ~dry_run
    /\ run < MaxRuns
    /\ run' = run + 1
    /\ first_out' = IF run = 1 THEN index_js ELSE first_out
    /\ before_js' = index_js
    /\ pc' = "start"
    /\ tags' = <<>>
    /\ tag_names' = {}
    /\ tags_lines' = <<>>
    /\ aliases_dict' = {}
    /\ background_tags' = <<>>
    /\ clothing_tags' = <<>>
    /\ lines' = <<>>
    /\ marks' = NoMarks
    /\ exit_code' = None
    /\ opened' = {}
    /\ stderr' = <<>>
    /\ UNCHANGED <<inputs, index_js>>

\* the state main() starts in, for given arguments and a given index.js
Start(rows, thr, dry, js) ==
    /\ pc = "start"
    /\ csv = rows
    /\ threshold = thr
    /\ dry_run = dry
    /\ tags = <<>>
    /\ tag_names = {}
    /\ tags_lines = <<>>
    /\ aliases_dict = {}
    /\ background_tags = <<>>
    /\ clothing_tags = <<>>
    /\ index_js = js
    /\ lines = <<>>
    /\ marks = NoMarks
    /\ exit_code = None
    /\ opened = {}
    /\ stderr = <<>>
    /\ run = 1
    /\ before_js = js
    /\ first_out = <<>>

(***************************************************************************)
(* Inputs.                                                                 *)
(***************************************************************************)
F_0 == <<48>>
F_1 == <<49>>
F_5 == <<53>>
F_100 == <<49, 48, 48>>
\* " 9 "
F_9_spaced == <<32, 57, 32>>
\* "x"
F_x == <<120>>
\* "b, c" and ",b ,"
F_b_c == <<98, 44, 32, 99>>
F_b_only == <<44, 98, 32, 44>>

SeqsUpTo(S, n) == UNION {[1..k -> S] : k \in 0..n}

\* line 367: default=100
DefaultThreshold == 100

\* the thresholds tried: one below the default, and the default
Thresholds == {5, DefaultThreshold}

\* files under test, concatenated from whole sections and single lines
SectionValidLed ==
    <<Text(OLD_LEAD_IN), Text(VALID_OPEN), Text(OLD_ENTRY), Text(SET_CLOSE_LINE)>>
SectionValid == <<Text(VALID_OPEN), Text(OLD_ENTRY), Text(SET_CLOSE_LINE)>>
SectionsBgCloth ==
    <<Text(BG_OPEN_EXPORT), Text(SET_CLOSE_INDENTED), Text(CLOTH_OPEN), Text(SET_CLOSE_LINE)>>
SectionsClothBg ==
    <<Text(CLOTH_OPEN), Text(SET_CLOSE_LINE), Text(BG_OPEN), Text(SET_CLOSE_LINE)>>
SectionAliases == <<Text(ALIASES_OPEN), Text(OLD_ALIAS), Text(OBJ_CLOSE_LINE)>>
SectionAliasesOpen == <<Text(ALIASES_OPEN), Text(OLD_ALIAS)>>
CodeLine == <<Text(CODE_X)>>

Chunks ==
    {SectionValidLed, SectionValid, SectionsBgCloth, SectionsClothBg,
     SectionAliases, SectionAliasesOpen, CodeLine}

TargetFiles == {Concat(cs) : cs \in SeqsUpTo(Chunks, MaxChunks)}

\* an index.js laid out as the generator lays it out
CanonicalJs == CodeLine \o SectionValidLed \o SectionsBgCloth \o SectionAliases \o CodeLine

PatchCsv ==
    << <<T_indoors, F_0, F_100, F_b_c>>, <<T_its, F_0, F_5, F_b_only>>,
       <<T_shirt, F_1, F_100>> >>

\* main() on every file under test
Init ==
    \E thr \in Thresholds, dry \in BOOLEAN, js \in TargetFiles :
        Start(PatchCsv, thr, dry, js)

Next ==
    \/ ParseCsv
    \/ Derive
    \/ DryRunReturn
    \/ ScanTarget
    \/ MissingExit
    \/ SpliceWrite
    \/ RunAgain

Spec == Init /\ [][Next]_vars

(***************************************************************************)
(* Vocabulary of the properties.                                           *)
(***************************************************************************)
Markers == {VALID_MARK, BG_MARK, CLOTH_MARK, ALIASES_MARK}

\* number of lines of js that contain the marker
Occurrences(js, mk) == Cardinality({i \in 1..Len(js) : mk \in MarkersIn(js[i])})

AnyIndexNone(m) == \E f \in DOMAIN m : m[f] = None

Finished == pc \in {"done", "error"}

\* the four regions of js as pairs <<start, end>> of 0-based indices
Regions(js) ==
    LET m == ScanMarkers(js)
    IN  {<<m.valid_tags_start, m.valid_tags_end>>, <<m.bg_tags_start, m.bg_tags_end>>,
         <<m.cloth_tags_start, m.cloth_tags_end>>, <<m.aliases_start, m.aliases_end>>}

\* every region once, opened before it is closed, no two sharing a line
WellFormed(js) ==
    /\ \A mk \in Markers : Occurrences(js, mk) = 1
    /\ ~AnyIndexNone(ScanMarkers(js))
    /\ \A r \in Regions(js) : r[1] < r[2]
    /\ \A r1, r2 \in Regions(js) : r1 # r2 => (r1[2] < r2[1] \/ r2[2] < r1[1])

InRegion(js, i) == \E r \in Regions(js) : r[1] <= i /\ i <= r[2]

\* the line directly above the region that comes first in the file, and the
\* line directly above VALID_BOORU_TAGS
IsLeadIn(js, i) ==
    \/ i = ScanMarkers(js).valid_tags_start - 1
    \/ \E r \in Regions(js) : i = r[1] - 1 /\ \A q \in Regions(js) : r[1] <= q[1]

\* the lines of js outside the four regions, the lead-in line left out
Outside(js) ==
    LET out == {i \in 0..(Len(js) - 1) : ~InRegion(js, i) /\ ~IsLeadIn(js, i)}
        Nth(k) == CHOOSE i \in out : Cardinality({j \in out : j < i}) = k - 1
    IN  [k \in 1..Cardinality(out) |-> js[Nth(k) + 1]]

RECURSIVE IsSubseqFrom(_, _, _)
\* a occurs in b from position `from` on, in order, on distinct lines
IsSubseqFrom(a, b, from) ==
    IF a = <<>> THEN TRUE
    ELSE LET hits == {j \in from..Len(b) : b[j] = a[1]}
         IN  /\ hits # {}
             /\ IsSubseqFrom(Tail(a), b, (CHOOSE j \in hits : \A h \in hits : j <= h) + 1)

IsSubseq(a, b) == IsSubseqFrom(a, b, 1)

Count(l, q) == Cardinality({i \in 1..Len(q) : q[i] = l})

\* the lines the generator itself writes for the current arguments
GeneratedNow ==
    Generated(threshold, tags_lines, background_tags, clothing_tags, aliases_dict)

(***************************************************************************)
(* C1: after a successful real run on a file that holds each of the four   *)
(* regions exactly once, in any order, every original line outside the     *)
(* regions (the lead-in comment line aside) is in the rewritten file, in   *)
(* its original order, and as many times as it was outside the regions.    *)
(***************************************************************************)
C1_OutsidePreserved ==
    (pc = "done" /\ ~dry_run /\ WellFormed(before_js)) =>
        /\ IsSubseq(Outside(before_js), index_js)
        /\ \A l \in Range(Outside(before_js)) \ Range(GeneratedNow) :
               Count(l, index_js) = Count(l, Outside(before_js))

(***************************************************************************)
(* C2: a second run with the same CSV and threshold on the file the first  *)
(* run wrote succeeds and leaves the file line for line as the first run   *)
(* left it.                                                                *)
(***************************************************************************)
C2_SecondRunIdentical ==
    (run = 2 /\ Finished) => (pc = "done" /\ index_js = first_out)

(***************************************************************************)
(* C3: when one of the eight indices is unresolved after the scan, the run *)
(* ends in the error state with exit status 1, the write is never reached  *)
(* and index.js is as it was before the run.                               *)
(***************************************************************************)
C3_UnresolvedAborts ==
    (~dry_run /\ pc \in {"scanned", "done", "error"} /\ lines = before_js
        /\ AnyIndexNone(marks)) =>
        /\ pc # "done"
        /\ "w" \notin opened
        /\ index_js = before_js
        /\ pc = "error" => exit_code = 1

\* the alias map is opened and never closed; the run has ended in the error state
C3_Witness ==
    /\ pc = "error"
    /\ exit_code = 1
    /\ marks.aliases_start # None
    /\ marks.aliases_end = None
    /\ \A f \in DOMAIN marks \ {"aliases_end"} : marks[f] # None
    /\ index_js = before_js

(***************************************************************************)
(* C4 as stated: a file in which the opening marker of some region is on   *)
(* no line or on more than one line is never written, the run ends in the  *)
(* error state.                                                            *)
(***************************************************************************)
C4_ExactlyOneOrFail ==
    (~dry_run /\ Finished /\ \E mk \in Markers : Occurrences(before_js, mk) # 1) =>
        (pc = "error" /\ index_js = before_js /\ "w" \notin opened)

(***************************************************************************)
(* C4 amended: a file in which the opening marker of some region is on no  *)
(* line is never written, the run ends in the error state.                 *)
(***************************************************************************)
C4_AbsentMarkerFails ==
    (~dry_run /\ \E mk \in Markers : Occurrences(before_js, mk) = 0) =>
        /\ pc # "done"
        /\ index_js = before_js
        /\ "w" \notin opened
        /\ Finished => (pc = "error" /\ exit_code = 1)

\* the alias map is absent, the three sets are present and closed
C4_Witness ==
    /\ pc = "error"
    /\ Occurrences(before_js, ALIASES_MARK) = 0
    /\ \A mk \in Markers \ {ALIASES_MARK} : Occurrences(before_js, mk) = 1
    /\ \A f \in DOMAIN marks \ {"aliases_start", "aliases_end"} : marks[f] # None
    /\ index_js = before_js

(***************************************************************************)
(* C10: in a dry run the target file is neither read nor written: its      *)
(* content is unchanged in every state, whatever the CSV and the file      *)
(* hold, and the run ends with exit status 0 after the derivation.         *)
(***************************************************************************)
C10_DryRunTouchesNothing ==
    dry_run =>
        /\ index_js = before_js
        /\ opened = {}
        /\ pc \in {"start", "parsed", "derived", "done"}
        /\ pc = "done" => (exit_code = 0 /\ tag_names = DictKeys(tags))

\* a dry run has ended on a file that lacks region markers, with tags extracted
C10_Witness ==
    /\ dry_run
    /\ pc = "done"
    /\ exit_code = 0
    /\ tag_names # {}
    /\ AnyIndexNone(ScanMarkers(index_js))
    /\ index_js # <<>>

(***************************************************************************)
(* The extractor and the curator on generated CSVs (dry runs).             *)
(***************************************************************************)
RowNames == {T_indoors, T_shirt}
TypeFields == {F_0, F_1, F_x}
CountFields == {F_9_spaced, F_100, F_x}

\* rows of two, three and four fields
Rows ==
    {<<T_indoors, F_0>>}
    \cup {<<n, t, c>> : n \in RowNames, t \in TypeFields, c \in CountFields}
    \cup {<<n, t, c, F_b_c>> : n \in RowNames, t \in TypeFields, c \in CountFields}

InitCsv ==
    \E rows \in SeqsUpTo(Rows, MaxRows), thr \in Thresholds :
        Start(rows, thr, TRUE, CanonicalJs)

NextDry ==
    \/ ParseCsv
    \/ Derive
    \/ DryRunReturn

SpecCsv == InitCsv /\ [][NextDry]_vars

\* the row has three fields or more, its type reads 0, its count reads an
\* integer of at least thr
Qualifies(row, thr) ==
    /\ Len(row) >= 3
    /\ PyInt(row[2]).ok /\ PyInt(row[2]).val = 0
    /\ PyInt(row[3]).ok /\ PyInt(row[3]).val >= thr

(***************************************************************************)
(* C6: every name parse_csv returns comes from a row of at least three     *)
(* fields whose type reads as the integer 0 and whose count reads as an    *)
(* integer >= threshold; the count stored for it is >= threshold; a name   *)
(* with no such row is not returned; rows whose type or count is no        *)
(* integer are skipped and the parse goes on.                              *)
(***************************************************************************)
C6_OnlyQualifyingRows ==
    (pc # "start") =>
        /\ \A i \in 1..Len(tags) :
              /\ tags[i].count >= threshold
              /\ \E k \in 1..Len(csv) :
                    /\ Qualifies(csv[k], threshold)
                    /\ csv[k][1] = tags[i].name
                    /\ PyInt(csv[k][3]).val = tags[i].count
        /\ \A k \in 1..Len(csv) :
              Qualifies(csv[k], threshold) => csv[k][1] \in DictKeys(tags)

\* one row is kept; a row of another type and a row with a count that is no
\* integer were skipped
C6_Witness ==
    /\ pc = "parsed"
    /\ Len(csv) = 2
    /\ Len(tags) = 1
    /\ \E k \in 1..Len(csv) :
          /\ Len(csv[k]) >= 3
          /\ (PyInt(csv[k][2]).val # 0 \/ ~PyInt(csv[k][3]).ok
                \/ PyInt(csv[k][3]).val < threshold)

(***************************************************************************)
(* C7: each curated subset is a subset of the full tag set, and every      *)
(* value of the alias map is a member of the full tag set.                 *)
(***************************************************************************)
C7_DerivedWithinTagSet ==
    (pc \in {"derived", "done"}) =>
        /\ tag_names = DictKeys(tags)
        /\ Range(background_tags) \subseteq tag_names
        /\ Range(clothing_tags) \subseteq tag_names
        /\ \A p \in aliases_dict : p.canonical \in tag_names

\* both subsets and the alias map are non-empty
C7_Witness ==
    /\ pc = "done"
    /\ background_tags # <<>>
    /\ clothing_tags # <<>>
    /\ aliases_dict # {}

(***************************************************************************)
(* escape_js_string on generated strings.                                  *)
(***************************************************************************)
\* backslash, apostrophe and the letter a
EscAlphabet == {BACKSLASH, APOSTROPHE, 97}

InitEsc ==
    \E s \in SeqsUpTo(EscAlphabet, MaxStrLen) :
        Start(<< <<s, F_0, F_100>> >>, DefaultThreshold, TRUE, CanonicalJs)

SpecEsc == InitEsc /\ [][NextDry]_vars

RECURSIVE JsDecode(_)
\* the value of the body e of a single-quoted JavaScript literal; ok is
\* FALSE when e holds an unescaped apostrophe or ends in a lone backslash
JsDecode(e) ==
    IF e = <<>> THEN [ok |-> TRUE, val |-> <<>>]
    ELSE IF e[1] = APOSTROPHE THEN [ok |-> FALSE, val |-> <<>>]
    ELSE IF e[1] = BACKSLASH
    THEN IF Len(e) < 2 THEN [ok |-> FALSE, val |-> <<>>]
         ELSE LET r == JsDecode(SubSeq(e, 3, Len(e)))
              IN  [ok |-> r.ok, val |-> <<e[2]>> \o r.val]
    ELSE LET r == JsDecode(Tail(e))
         IN  [ok |-> r.ok, val |-> <<e[1]>> \o r.val]

RECURSIVE CharByChar(_)
\* each backslash doubled, each apostrophe preceded by one backslash
CharByChar(s) ==
    IF s = <<>> THEN <<>>
    ELSE (IF s[1] = BACKSLASH THEN <<BACKSLASH, BACKSLASH>>
          ELSE IF s[1] = APOSTROPHE THEN <<BACKSLASH, APOSTROPHE>>
          ELSE <<s[1]>>) \o CharByChar(Tail(s))

(***************************************************************************)
(* C9: in the entry written for a tag name, each backslash of the name is  *)
(* doubled and each apostrophe is preceded by one added backslash, and     *)
(* reading the entry as the body of a single-quoted literal gives the name *)
(* back.                                                                   *)
(***************************************************************************)
C9_EscapeReversible ==
    (pc \in {"derived", "done"} /\ Len(tags) = 1) =>
        LET s == tags[1].name
            e == tags_lines[1][1]
        IN  /\ e = CharByChar(s)
            /\ JsDecode(e) = [ok |-> TRUE, val |-> s]

\* the name holds a backslash and an apostrophe
C9_Witness ==
    /\ pc = "derived"
    /\ Len(tags) = 1
    /\ BACKSLASH \in Range(tags[1].name)
    /\ APOSTROPHE \in Range(tags[1].name)
    /\ Len(tags_lines[1][1]) = Len(tags[1].name) + 2

(***************************************************************************)
(* The formatter and the block emission on generated tag lists.            *)
(***************************************************************************)
\* the tags a CSV may list, in the order it lists them
TagUniverse ==
    <<T_shirt, T_1girl, T_its, T_a_bs_b,
      T_outdoors, T_indoors, T_kitchen, T_bathroom, T_bedroom, T_rooftop,
      T_living_room, T_classroom, T_hallway, T_balcony, T_office, T_library,
      T_hospital, T_fountain,
      T_skirt, T_dress, T_open_shirt, T_corset, T_bustier>>

\* "_"
F_underscore == <<95>>

\* a CSV of general tags with the default count, each with one alias, name_
TagRows(q) == [i \in 1..Len(q) |-> <<q[i], F_0, F_100, q[i] \o F_underscore>>]

\* the runs of at most MaxTags tags of the universe
TagLists ==
    {SubSeq(TagUniverse, a, Min(a + n - 1, Len(TagUniverse))) :
        a \in 1..Len(TagUniverse), n \in 0..MaxTags}

InitFmt ==
    \E q \in TagLists, dry \in BOOLEAN,
       js \in {CanonicalJs, CodeLine} :
        Start(TagRows(q), DefaultThreshold, dry, js)

SpecFmt == InitFmt /\ [][Next]_vars

\* the content lines of a block of js: the lines after the line that holds
\* the marker, up to the first line that strips to the delimiter
BlockLines(js, mk, close) ==
    LET s == CHOOSE i \in 1..Len(js) : mk \in MarkersIn(js[i])
        e == CHOOSE i \in (s + 1)..Len(js) :
                 Stripped(js[i]) = close /\ \A j \in (s + 1)..(i - 1) : Stripped(js[j]) # close
    IN  SubSeq(js, s + 1, e - 1)

ArgsOf(ls) == Concat([i \in 1..Len(ls) |-> ls[i].args])

CeilDiv(n, d) == (n + d - 1) \div d

\* ls wraps count entries at `per` a line, a comma after every line but the last
Wrapped(ls, count, per) ==
    /\ Len(ls) = CeilDiv(count, per)
    /\ \A i \in 1..Len(ls) :
          /\ i < Len(ls) => (Len(ls[i].args) = per /\ ls[i].fmt = ENTRIES_COMMA)
          /\ i = Len(ls) => (Len(ls[i].args) = count - per * (Len(ls) - 1)
                             /\ Len(ls[i].args) \in 1..per
                             /\ ls[i].fmt = ENTRIES_LAST)

\* a real run has written index.js, once
Written == pc = "done" /\ ~dry_run /\ run = 1

(***************************************************************************)
(* C5: the entries written into the BACKGROUND_TAGS block and into the     *)
(* CLOTHING_TAGS block are in ascending alphabetical order, no entry       *)
(* twice.                                                                  *)
(***************************************************************************)
C5_CategorySorted ==
    Written =>
        /\ ArgsOf(BlockLines(index_js, BG_MARK, SET_CLOSE))
             = EscapeAll(SortedSeq(Range(background_tags)))
        /\ ArgsOf(BlockLines(index_js, CLOTH_MARK, SET_CLOSE))
             = EscapeAll(SortedSeq(Range(clothing_tags)))

(***************************************************************************)
(* C8: the VALID_BOORU_TAGS block holds the n >= 1 tags in ascending order *)
(* on ceil(n/8) lines of 8 entries, the last line holding the rest; a      *)
(* category block of m >= 1 entries has ceil(m/6) lines of 6 entries, the  *)
(* last line holding the rest; in every block each content line but the    *)
(* last ends with a comma and the last does not.                           *)
(***************************************************************************)
C8_WrappedBlocks ==
    Written =>
        LET v == BlockLines(index_js, VALID_MARK, SET_CLOSE)
            b == BlockLines(index_js, BG_MARK, SET_CLOSE)
            c == BlockLines(index_js, CLOTH_MARK, SET_CLOSE)
            a == BlockLines(index_js, ALIASES_MARK, OBJ_CLOSE)
        IN  /\ Wrapped(v, Cardinality(tag_names), TagsPerLine)
            /\ Len(ArgsOf(v)) = Cardinality(tag_names)
            /\ Range(ArgsOf(v)) = {CharByChar(t) : t \in tag_names}
            /\ \A i \in 1..(Len(ArgsOf(v)) - 1) :
                   \E x, y \in tag_names :
                       /\ ArgsOf(v)[i] = CharByChar(x)
                       /\ ArgsOf(v)[i + 1] = CharByChar(y)
                       /\ StrLess(x, y)
            /\ Wrapped(b, Len(background_tags), PersistPerLine)
            /\ ArgsOf(b) = EscapeAll(background_tags)
            /\ Wrapped(c, Len(clothing_tags), PersistPerLine)
            /\ ArgsOf(c) = EscapeAll(clothing_tags)
            /\ Len(a) = Cardinality(aliases_dict)
            /\ \A i \in 1..Len(a) :
                   a[i].fmt = IF i < Len(a) THEN ALIAS_COMMA ELSE ALIAS_LAST

\* 17 tags on lines of 8, 8, 1 and 13 background entries on lines of 6, 6, 1
C8_Witness ==
    /\ Written
    /\ Cardinality(tag_names) = 17
    /\ Len(BlockLines(index_js, VALID_MARK, SET_CLOSE)) = 3
    /\ Len(BlockLines(index_js, VALID_MARK, SET_CLOSE)[3].args) = 1
    /\ Len(background_tags) = 13
    /\ Len(BlockLines(index_js, BG_MARK, SET_CLOSE)) = 3
    /\ Len(BlockLines(index_js, BG_MARK, SET_CLOSE)[3].args) = 1

(***************************************************************************)
(* The diagnostic of a failed scan (under Spec).                           *)
(***************************************************************************)
\* the region names the text of a print statement holds
NamesIn(text) ==
    CASE text \in {MSG_BACKGROUND, MSG_CLOTHING, MSG_LOC_VALID, MSG_N_VALID}
           -> {"VALID_BOORU_TAGS"}
      [] text \in {MSG_LOC_BG, MSG_N_BG} -> {"BACKGROUND_TAGS"}
      [] text \in {MSG_LOC_CLOTH, MSG_N_CLOTH} -> {"CLOTHING_TAGS"}
      [] text \in {MSG_LOC_ALIASES, MSG_N_ALIASES} -> {"TAG_ALIASES"}
      [] OTHER -> {}

\* the lines of the error output: those that begin with ERROR:
ErrorOutput == SelectSeq(stderr, LAMBDA l : l.text = MSG_ERROR)

\* the region names a printed line reports, in its text or interpolated
Reported(l) ==
    NamesIn(l.text) \cup (UNION {l.values[j] : j \in 1..Len(l.values)} \cap RegionNames)

ReportedBy(ls) == UNION {Reported(ls[i]) : i \in 1..Len(ls)}

RECURSIVE ScanTrace(_, _, _, _)
\* the indices after each of the lines lo..hi-1, scanned in order from m
ScanTrace(m, lo, hi, ls) ==
    IF lo >= hi THEN <<>>
    ELSE IF hi = lo + 1 THEN <<ScanLine(m, lo, ls[lo + 1])>>
    ELSE LET mid == (lo + hi) \div 2
             left == ScanTrace(m, lo, mid, ls)
         IN  After(left, left \o ScanTrace(left[Len(left)], mid, hi, ls))

\* the indices before the first line, then after each line
ScanStates(ls) == <<NoMarks>> \o ScanTrace(NoMarks, 0, Len(ls), ls)

\* the regions whose start has been seen and whose end has not
AwaitEnd(m) == {r \in RegionNames : StartOf(m, r) # None /\ EndOf(m, r) = None}

\* the indices a step of the scan changed
Changed(a, b) == {f \in DOMAIN a : a[f] # b[f]}

\* C12 as stated: in every state of the scan, of every file, at most one
\* region has its start seen and its end unseen.
C12_OneAwaitEnd ==
    pc = "scanned" =>
        LET st == ScanStates(lines)
        IN  \A k \in 1..Len(st) : Cardinality(AwaitEnd(st[k])) <= 1

\* C12 as amended: the scan ends in the indices main() validates, each line
\* of the scan changes at most one of the eight indices, and a line that sets
\* an end index sets it for one region only, one that had started and not
\* ended; several regions may await their end at once.
C12_OneBoundaryPerLine ==
    pc = "scanned" =>
        LET st == ScanStates(lines)
        IN  /\ st[Len(st)] = marks
            /\ \A k \in 1..(Len(st) - 1) :
                 /\ Cardinality(Changed(st[k], st[k + 1])) <= 1
                 /\ \A r \in RegionNames :
                      EndOf(st[k], r) # EndOf(st[k + 1], r) =>
                          /\ r \in AwaitEnd(st[k])
                          /\ AwaitEnd(st[k + 1]) = AwaitEnd(st[k]) \ {r}

\* a scan in which two regions await their end, and the closing line that
\* follows ends one of them
C12_Witness ==
    /\ pc = "scanned"
    /\ LET st == ScanStates(lines)
       IN  \E k \in 1..(Len(st) - 1) :
             /\ Cardinality(AwaitEnd(st[k])) = 2
             /\ Cardinality(AwaitEnd(st[k + 1])) = 1
(***************************************************************************)
(* The head of the rewritten file (under Spec).                            *)
(***************************************************************************)
\* the lines of the rewritten file that precede the generated blocks
HeadWritten ==
    SubSeq(index_js, 1,
           Len(index_js) - Len(GeneratedNow) - Len(SpliceTail(lines, marks)))

\* original lines with index < k (0-based), none when k <= 0
LinesBefore(ls, k) == SubSeq(ls, 1, Min(Max(k, 0), Len(ls)))

\* C13: after a real run has rewritten the file, the head of the rewritten
\* file is exactly the original lines with index < start - 1, start being the
\* index of the VALID_BOORU_TAGS opening line, for every start including 0
\* and 1; no line at or after the opening line is in the head.
C13_HeadBeforeLeadIn ==
    (pc = "done" /\ ~dry_run) =>
        HeadWritten = LinesBefore(lines, marks.valid_tags_start - 1)
====
